---- MODULE Spec2Model ----
(***************************************************************************)
(* PathUtil for PathBuf (crates/lodestone-core/src/utils/path_util.rs):    *)
(* clean strips blacklisted characters from the final segment of a path,   *)
(* unique appends a numeric disambiguator until the path does not exist.   *)
(*                                                                         *)
(* A path is the character sequence held by the PathBuf (Unix build: the   *)
(* only separator is "/").  A character is a one-character string.  The    *)
(* std::path operations the two methods call (file_name, file_stem,        *)
(* extension, with_file_name, exists) are modelled on that sequence the    *)
(* way std::path computes them.                                            *)
(***************************************************************************)
EXTENDS Integers, Sequences, FiniteSets, TLC

VARIABLES path, fs, pc, op, result, input, stem, extension, index, probed, calls

vars == <<path, fs, pc, op, result, input, stem, extension, index, probed, calls>>

(***************************************************************************)
(* Bounds of the model.                                                    *)
(***************************************************************************)
MaxLen == 4
MaxCalls == 2
MaxLenU == 3
MaxK == 2

(***************************************************************************)
(* Option values: None, Some(x).                                           *)
(***************************************************************************)
None == <<>>
Some(x) == <<x>>

(***************************************************************************)
(* Characters.                                                             *)
(***************************************************************************)
\* The character class of INVALID_FILENAME_CHAR_RE: [*:"'\\/?<>|]
InvalidChars == {"*", ":", "\"", "'", "\\", "/", "?", "<", ">", "|"}

\* Characters str::trim removes (White_Space), as far as the model draws them.
WhiteSpace == {" ", "\t", "\n", "\r"}

\* A byte that is not valid UTF-8, and the replacement character U+FFFD.
BadByte == "\\xFF"
Replacement == "U+FFFD"

\* OsStr::to_string_lossy: invalid UTF-8 becomes U+FFFD, the rest is kept.
to_string_lossy(s) == [i \in 1..Len(s) |-> IF s[i] = BadByte THEN Replacement ELSE s[i]]

(***************************************************************************)
(* std::path on Unix.                                                      *)
(***************************************************************************)
\* let x = v in F(x): v is computed once and F reads its value.
With(v, F(_)) == CHOOSE r \in {F(x) : x \in {v}} : TRUE

\* Option::unwrap_or
UnwrapOr(o, d) == IF o # None THEN o[1] ELSE d

\* The largest member of a set of indices, 0 for the empty set.
Last(S) == IF S = {} THEN 0 ELSE CHOOSE i \in S : \A j \in S : j <= i

is_sep_byte(c) == c = "/"

has_root(p) == Len(p) > 0 /\ is_sep_byte(p[1])

\* Components::include_cur_dir: a leading "." component of a relative path.
include_cur_dir(p) ==
    /\ ~(Len(p) > 0 /\ is_sep_byte(p[1]))
    /\ Len(p) >= 1
    /\ p[1] = "."
    /\ (Len(p) = 1 \/ is_sep_byte(p[2]))

\* Components::len_before_body: the root or the leading ".", if any.
len_before_body(p) == IF has_root(p) \/ include_cur_dir(p) THEN 1 ELSE 0

\* Components::parse_single_component: None for an empty piece and for ".".
parse_single_component(comp) ==
    IF comp = <<>> \/ comp = <<".">> THEN None
    ELSE IF comp = <<".", ".">> THEN Some([kind |-> "ParentDir", name |-> comp])
    ELSE Some([kind |-> "Normal", name |-> comp])

\* Components::parse_next_component_back: the piece after the last separator
\* of the body (i: its index, 0 when there is none), its size with that
\* separator, and the component it is.
parse_next_component_back(p, lbb) ==
    With(Last({j \in (lbb + 1)..Len(p) : is_sep_byte(p[j])}), LAMBDA i :
        IF i = 0
        THEN [size |-> Len(p) - lbb,
              comp |-> parse_single_component(SubSeq(p, lbb + 1, Len(p)))]
        ELSE [size |-> Len(p) - i + 1,
              comp |-> parse_single_component(SubSeq(p, i + 1, Len(p)))])

\* Components::next_back while in the body: skip the pieces that are no
\* component, return the last component and what is left of the path before it.
RECURSIVE next_back_body(_, _)
next_back_body(p, lbb) ==
    IF Len(p) <= lbb THEN [rest |-> p, comp |-> None]
    ELSE With(parse_next_component_back(p, lbb), LAMBDA r :
         With(SubSeq(p, 1, Len(p) - r.size), LAMBDA rest :
             IF r.comp # None THEN [rest |-> rest, comp |-> r.comp]
             ELSE next_back_body(rest, lbb)))

\* Components::next_back: the last component of p (None for the empty path)
\* and the path left before it.  After the body come the root or the
\* leading ".".
next_back(p) ==
    With(next_back_body(p, len_before_body(p)), LAMBDA b :
        IF b.comp # None THEN b
        ELSE IF has_root(p)
             THEN [rest |-> <<>>, comp |-> Some([kind |-> "RootDir", name |-> <<"/">>])]
        ELSE IF include_cur_dir(p)
             THEN [rest |-> <<>>, comp |-> Some([kind |-> "CurDir", name |-> <<".">>])]
        ELSE [rest |-> <<>>, comp |-> None])

\* Components::trim_right: drop trailing pieces that are no component.
RECURSIVE trim_right(_, _)
trim_right(p, lbb) ==
    IF Len(p) <= lbb THEN p
    ELSE With(parse_next_component_back(p, lbb), LAMBDA r :
             IF r.comp # None THEN p
             ELSE With(SubSeq(p, 1, Len(p) - r.size), LAMBDA rest : trim_right(rest, lbb)))

\* Path::components, collected: PathBuf equality compares these.
RECURSIVE components(_)
components(p) ==
    With(next_back(p), LAMBDA n :
        IF n.comp = None THEN <<>>
        ELSE IF n.comp[1].kind \in {"RootDir", "CurDir"} THEN n.comp
        ELSE Append(components(n.rest), n.comp[1]))

\* Path::file_name: the last component when it is a normal one.
file_name(p) ==
    With(next_back(p), LAMBDA n :
        IF n.comp # None /\ n.comp[1].kind = "Normal" THEN Some(n.comp[1].name) ELSE None)

\* Path::parent: the path without its last component; None for a root and
\* for the empty path.
parent(p) ==
    With(next_back(p), LAMBDA n :
        IF n.comp = None \/ n.comp[1].kind = "RootDir" THEN None
        ELSE IF n.comp[1].kind = "CurDir" THEN Some(n.rest)
        ELSE Some(trim_right(n.rest, len_before_body(p))))

\* PathBuf::pop: truncate to the parent, when there is one.
pop(p) == UnwrapOr(parent(p), p)

\* PathBuf::push of a path without prefix: an absolute one replaces the
\* buffer, a relative one is appended after a separator when one is needed.
push(p, q) ==
    IF Len(q) > 0 /\ is_sep_byte(q[1]) THEN q
    ELSE IF Len(p) > 0 /\ ~is_sep_byte(p[Len(p)]) THEN p \o <<"/">> \o q
    ELSE p \o q

\* PathBuf::set_file_name: pop the file name when there is one, then push.
set_file_name(p, name) ==
    With(IF file_name(p) # None THEN pop(p) ELSE p, LAMBDA buf : push(buf, name))

\* Path::with_file_name (set_file_name on a copy).
with_file_name(p, name) == With(name, LAMBDA file_name_arg : set_file_name(p, file_name_arg))

\* Path::file_stem and Path::extension split the file name at its last "."
\* (rsplit_file_at_dot): no split for "..", for a name without "." and for a
\* name whose last "." is its first character.
rsplit_file_at_dot(file) ==
    With(Last({j \in 1..Len(file) : file[j] = "."}), LAMBDA i :
        IF file = <<".", ".">> THEN [before |-> Some(file), after |-> None]
        ELSE IF i = 0 THEN [before |-> None, after |-> Some(file)]
        ELSE IF i = 1 THEN [before |-> Some(file), after |-> None]
        ELSE [before |-> Some(SubSeq(file, 1, i - 1)),
              after  |-> Some(SubSeq(file, i + 1, Len(file)))])

\* Option::map(rsplit_file_at_dot) on the file name.
split_name(p) ==
    With(file_name(p), LAMBDA name :
        IF name = None THEN None ELSE Some(rsplit_file_at_dot(name[1])))

\* Path::file_stem: before.or(after)
file_stem(p) ==
    With(split_name(p), LAMBDA s :
        IF s = None THEN None
        ELSE IF s[1].before # None THEN s[1].before ELSE s[1].after)

\* Path::extension: before.and(after)
path_extension(p) ==
    With(split_name(p), LAMBDA s :
        IF s = None THEN None
        ELSE IF s[1].before # None THEN s[1].after ELSE None)

\* Path::exists against the filesystem fs, a set of entries named by their
\* components.
exists(p, entries) == components(p) \in entries

(***************************************************************************)
(* Strings.                                                                *)
(***************************************************************************)
\* Regex::is_match of INVALID_FILENAME_CHAR_RE
is_match(s) == \E i \in 1..Len(s) : s[i] \in InvalidChars

\* Regex::replace_all(s, ""): every match deleted.
replace_all(s) == SelectSeq(s, LAMBDA c : c \notin InvalidChars)

RECURSIVE trim_start(_)
trim_start(s) ==
    IF s # <<>> /\ Head(s) \in WhiteSpace THEN trim_start(Tail(s)) ELSE s

RECURSIVE trim_end(_)
trim_end(s) ==
    IF s # <<>> /\ s[Len(s)] \in WhiteSpace THEN trim_end(SubSeq(s, 1, Len(s) - 1)) ELSE s

\* The cleaned name taken as replace_all leaves it, without the trim.
untrimmed(s) == s

\* str::trim
trim(s) == With(trim_start(s), LAMBDA t : trim_end(t))

Digits == <<"0", "1", "2", "3", "4", "5", "6", "7", "8", "9">>

\* Display of an integer >= 0, as format! writes it.
RECURSIVE Decimal(_)
Decimal(n) ==
    IF n < 10 THEN <<Digits[n + 1]>>
    ELSE Decimal(n \div 10) \o <<Digits[(n % 10) + 1]>>

(***************************************************************************)
(* PathUtil::clean                                                         *)
(***************************************************************************)
\* The path clean leaves in self and whether it returns Ok or Err.
clean(p) ==
    With(file_name(p), LAMBDA name :
        IF name = None THEN [status |-> "Ok", path |-> p]
        ELSE With(to_string_lossy(name[1]), LAMBDA filename :
            IF ~is_match(filename) THEN [status |-> "Ok", path |-> p]
            ELSE With(trim(replace_all(filename)), LAMBDA clean_name :
                IF clean_name = <<>> THEN [status |-> "Err", path |-> p]
                ELSE [status |-> "Ok", path |-> with_file_name(p, clean_name)])))

CleanCall ==
    /\ pc = "idle"
    /\ calls < MaxCalls
    /\ \E r \in {clean(path)} :
           /\ path' = r.path
           /\ result' = r.status
    /\ op' = "clean"
    /\ input' = path
    /\ calls' = calls + 1
    /\ UNCHANGED <<fs, pc, stem, extension, index, probed>>

(***************************************************************************)
(* PathUtil::unique                                                        *)
(***************************************************************************)
StartIndex == 1

\* A format! that writes the counter after the extension.
new_name_after_extension(s, e, i) ==
    IF e # None THEN s \o <<".">> \o e[1] \o <<" ", "(">> \o Decimal(i) \o <<")">>
    ELSE s \o <<" ", "(">> \o Decimal(i) \o <<")">>

\* The format! of the candidate name.
new_name(s, e, i) ==
    IF e # None THEN s \o <<" ", "(">> \o Decimal(i) \o <<")", ".">> \o e[1]
    ELSE s \o <<" ", "(">> \o Decimal(i) \o <<")">>

\* The Option e with to_string_lossy().into_owned() mapped over it.
MapLossy(e) == IF e = None THEN None ELSE Some(to_string_lossy(e[1]))

\* let stem = self.file_stem().map(..).unwrap_or_default();
unique_stem(p) == UnwrapOr(MapLossy(file_stem(p)), <<>>)

\* let extension = self.extension().map(..);
unique_extension(p) == MapLossy(path_extension(p))

\* A unique without the early return, numbering once before it looks.
UniqueNumbersMissingPath ==
    /\ pc = "idle"
    /\ calls < MaxCalls
    /\ ~exists(path, fs)
    /\ path' = with_file_name(path, new_name(unique_stem(path), unique_extension(path), StartIndex))
    /\ op' = "unique"
    /\ input' = path
    /\ result' = "Ok"
    /\ probed' = 0
    /\ calls' = calls + 1
    /\ UNCHANGED <<fs, pc, stem, extension, index>>

\* if !self.exists() { return self; }
UniqueEarlyReturn ==
    /\ pc = "idle"
    /\ calls < MaxCalls
    /\ ~exists(path, fs)
    /\ op' = "unique"
    /\ input' = path
    /\ result' = "Ok"
    /\ probed' = 0
    /\ calls' = calls + 1
    /\ UNCHANGED <<path, fs, pc, stem, extension, index>>

\* The path exists: stem, extension and index are set up for the loop.
UniqueBegin ==
    /\ pc = "idle"
    /\ calls < MaxCalls
    /\ exists(path, fs)
    /\ stem' = unique_stem(path)
    /\ extension' = unique_extension(path)
    /\ index' = StartIndex
    /\ pc' = "loop"
    /\ op' = "unique"
    /\ input' = path
    /\ result' = "Running"
    /\ probed' = 0
    /\ UNCHANGED <<path, fs, calls>>

\* An iteration that forgets index += 1.
UniqueLoopWithoutIncrement ==
    /\ pc = "loop"
    /\ exists(path, fs)
    /\ path' = with_file_name(path, new_name(stem, extension, index))
    /\ probed' = probed + (IF index > StartIndex THEN 1 ELSE 0)
    /\ UNCHANGED <<fs, pc, op, result, input, stem, extension, index, calls>>

\* One iteration of while self.exists(): the next candidate replaces the
\* file name.
UniqueLoop ==
    /\ pc = "loop"
    /\ exists(path, fs)
    /\ path' = with_file_name(path, new_name(stem, extension, index))
    /\ index' = index + 1
    /\ probed' = probed + (IF index > StartIndex THEN 1 ELSE 0)
    /\ UNCHANGED <<fs, pc, op, result, input, stem, extension, calls>>

\* An if in place of the while: the call returns after one renaming.
UniqueReturnAfterFirstRename ==
    /\ pc = "loop"
    /\ (~exists(path, fs) \/ index > StartIndex)
    /\ pc' = "idle"
    /\ result' = "Ok"
    /\ probed' = probed + (IF index > StartIndex THEN 1 ELSE 0)
    /\ calls' = calls + 1
    /\ UNCHANGED <<path, fs, op, input, stem, extension, index>>

\* The loop ends on the first path that does not exist.
UniqueReturn ==
    /\ pc = "loop"
    /\ ~exists(path, fs)
    /\ pc' = "idle"
    /\ result' = "Ok"
    /\ probed' = probed + (IF index > StartIndex THEN 1 ELSE 0)
    /\ calls' = calls + 1
    /\ UNCHANGED <<path, fs, op, input, stem, extension, index>>

Next == CleanCall \/ UniqueEarlyReturn \/ UniqueBegin \/ UniqueLoop \/ UniqueReturn

(***************************************************************************)
(* Terms of the specification, read off the components of a path.          *)
(***************************************************************************)
\* The final segment of a path: its last component when that is a name.
FinalSegment(p) ==
    IF components(p) # <<>> /\ components(p)[Len(components(p))].kind = "Normal"
    THEN Some(components(p)[Len(components(p))].name) ELSE None

\* The parent components: everything but the final segment.
ParentComponents(p) ==
    IF FinalSegment(p) # None THEN SubSeq(components(p), 1, Len(components(p)) - 1)
    ELSE components(p)

\* The components of the path with parent components c and final segment s.
Sibling(c, s) == Append(c, [kind |-> "Normal", name |-> s])

Blacklisted(s) == \E i \in 1..Len(s) : s[i] \in InvalidChars

\* s without its blacklisted characters.
Deleted(s) == SelectSeq(s, LAMBDA c : c \notin InvalidChars)

\* s without its leading and trailing whitespace.
Trimmed(s) ==
    LET I == {i \in 1..Len(s) : s[i] \notin WhiteSpace}
    IN  IF I = {} THEN <<>>
        ELSE SubSeq(s, CHOOSE i \in I : \A j \in I : i <= j, CHOOSE i \in I : \A j \in I : j <= i)

\* The text of a name: invalid bytes shown as U+FFFD.
Text(s) == [i \in 1..Len(s) |-> IF s[i] = BadByte THEN Replacement ELSE s[i]]

\* The numbered name "<stem> (<k>)" or "<stem> (<k>).<extension>" of a name
\* split before position dot (0: no extension).
NumberedAt(s, dot, k) ==
    IF dot = 0 THEN s \o <<" ", "(">> \o Decimal(k) \o <<")">>
    ELSE SubSeq(s, 1, dot - 1) \o <<" ", "(">> \o Decimal(k) \o <<")">> \o SubSeq(s, dot, Len(s))

\* The k-th numbered sibling of p: the extension starts at the last "." of
\* the final segment unless that "." is its first character.
Candidate(p, k) ==
    LET s == IF FinalSegment(p) # None THEN Text(FinalSegment(p)[1]) ELSE <<>>
        d == Last({i \in 1..Len(s) : s[i] = "."})
    IN  Sibling(ParentComponents(p), NumberedAt(s, IF d = 1 THEN 0 ELSE d, k))

(***************************************************************************)
(* Inputs.                                                                 *)
(***************************************************************************)
\* All character sequences over A of length at most n.
Strings(A, n) == UNION {[1..k -> A] : k \in 0..n}

\* Characters the paths given to clean are drawn from: a plain character,
\* whitespace, the dot, the separator, a blacklisted character, an invalid byte.
Alphabet == {"a", " ", ".", "/", "*", BadByte}

\* Characters the paths given to unique are drawn from.
AlphabetU == {"a", ".", "/", BadByte}

\* A path made of root, "." and ".." components only names a directory that
\* is always there.
AlwaysThere(p) ==
    /\ components(p) # <<>>
    /\ \A i \in 1..Len(components(p)) : components(p)[i].kind # "Normal"

\* The entries whose existence a call on p can depend on: p itself and its
\* numbered siblings up to MaxK.  The empty path names nothing.
FsUniverse(p) == ({components(p)} \cup {Candidate(p, k) : k \in 1..MaxK}) \ {<<>>}

\* The filesystems a call on p can meet: an always present directory is in
\* it, and so is p when p has no final segment and an entry below it exists.
Filesystems(p) ==
    {S \in SUBSET FsUniverse(p) :
        /\ AlwaysThere(p) => components(p) \in S
        /\ (FinalSegment(p) = None /\ S # {}) => components(p) \in S}

InitLocals ==
    /\ pc = "idle"
    /\ op = "none"
    /\ result = "None"
    /\ input = path
    /\ stem = <<>>
    /\ extension = None
    /\ index = StartIndex
    /\ probed = 0
    /\ calls = 0

\* Paths for clean, in a filesystem where nothing but an always present
\* directory exists.
InitClean ==
    /\ path \in Strings(Alphabet, MaxLen)
    /\ fs = (IF AlwaysThere(path) THEN {components(path)} ELSE {})
    /\ InitLocals

\* Paths for unique, with every filesystem over the entries a call can probe.
InitUnique ==
    /\ path \in Strings(AlphabetU, MaxLenU)
    /\ fs \in Filesystems(path)
    /\ InitLocals

SpecClean == InitClean /\ [][Next]_vars

SpecUnique == InitUnique /\ [][Next]_vars

\* unique is synchronous code: a started call keeps running.
FairSpecUnique == SpecUnique /\ WF_vars(UniqueLoop) /\ WF_vars(UniqueReturn)

(***************************************************************************)
(* Claims.                                                                 *)
(***************************************************************************)
\* A call of clean has returned Ok and nothing has run since.
CleanedOk == pc = "idle" /\ op = "clean" /\ result = "Ok"

\* A call of unique has returned and nothing has run since.
UniqueDone == pc = "idle" /\ op = "unique"

\* C1: whenever clean returns Ok, the final segment of the resulting path
\* contains none of the blacklisted characters.
C1_CleanResultHasNoBlacklisted ==
    CleanedOk => (FinalSegment(path) = None \/ ~Blacklisted(FinalSegment(path)[1]))

\* The final segment of the input is made of blacklisted characters and
\* whitespace only.
OnlyBlacklistedOrSpace(p) ==
    /\ FinalSegment(p) # None
    /\ \A i \in 1..Len(FinalSegment(p)[1]) :
           FinalSegment(p)[1][i] \in InvalidChars \cup WhiteSpace

\* C2 as claimed: a final segment of blacklisted characters and whitespace
\* only, whitespace alone included, makes clean signal the error.
C2_Original ==
    (pc = "idle" /\ op = "clean" /\ OnlyBlacklistedOrSpace(input)) => result = "Err"

\* C2: a final segment made of blacklisted characters and whitespace only,
\* with at least one blacklisted character, makes clean signal the error
\* (and leave the path as it was).
C2_AllBlacklistedIsError ==
    (pc = "idle" /\ op = "clean" /\ OnlyBlacklistedOrSpace(input)
        /\ Blacklisted(FinalSegment(input)[1]))
    => (result = "Err" /\ path = input)

C2_Witness ==
    /\ pc = "idle" /\ op = "clean" /\ result = "Err"
    /\ OnlyBlacklistedOrSpace(input)
    /\ \E i \in 1..Len(input) : input[i] \in WhiteSpace

\* The k-th numbered sibling of p as C3 words it: the extension starts at the
\* last "." of the final segment, wherever that "." is.
ClaimedCandidate(p, k) ==
    LET s == IF FinalSegment(p) # None THEN Text(FinalSegment(p)[1]) ELSE <<>>
    IN  Sibling(ParentComponents(p), NumberedAt(s, Last({i \in 1..Len(s) : s[i] = "."}), k))

\* C3 as claimed: for an existing path unique returns the first numbered
\* candidate that does not exist, the extension being whatever follows the
\* last "." of the final segment.
C3_Original ==
    (UniqueDone /\ components(input) \in fs)
    => \E k \in 1..(Cardinality(fs) + 1) :
          /\ components(path) = ClaimedCandidate(input, k)
          /\ ClaimedCandidate(input, k) \notin fs
          /\ \A j \in 1..(k - 1) : ClaimedCandidate(input, j) \in fs

\* C3: for an existing path unique returns the candidate with the smallest
\* counter k >= 1 that does not exist, having probed the candidates 1..k in
\* that order; the candidate is "<stem> (<k>).<extension>" when the last "."
\* of the final segment is not its first character, and "<stem> (<k>)" with
\* the whole final segment as stem otherwise; stem and extension are those
\* of the input's final segment, read as text.
C3_UniqueReturnsFirstFreeCandidate ==
    (UniqueDone /\ components(input) \in fs)
    => \E k \in 1..(Cardinality(fs) + 1) :
          /\ components(path) = Candidate(input, k)
          /\ Candidate(input, k) \notin fs
          /\ \A j \in 1..(k - 1) : Candidate(input, j) \in fs
          /\ probed = k

C3_Witness ==
    /\ UniqueDone
    /\ components(input) \in fs
    /\ probed = 3
    /\ FinalSegment(input) # None
    /\ \E i \in 2..Len(FinalSegment(input)[1]) : FinalSegment(input)[1][i] = "."

\* C4: the path unique returns does not exist, and is not the input when
\* the input exists.
C4_UniqueResultDoesNotExist ==
    UniqueDone =>
        /\ components(path) \notin fs
        /\ (components(input) \in fs => components(path) # components(input))

C4_Witness == UniqueDone /\ components(input) \in fs /\ probed = 2

\* C5: no step of clean or unique changes the parent components of the path.
C5_ParentComponentsPreserved ==
    [][ParentComponents(path') = ParentComponents(path)]_vars

\* C6: clean's Ok result is the input unchanged when its final segment has no
\* blacklisted character (or there is no final segment), and otherwise the
\* input with its final segment replaced by that segment without its
\* blacklisted characters, then trimmed.
C6_CleanEqualsReference ==
    CleanedOk =>
        IF FinalSegment(input) = None \/ ~Blacklisted(FinalSegment(input)[1])
        THEN path = input
        ELSE components(path) =
                 Sibling(ParentComponents(input), Trimmed(Deleted(Text(FinalSegment(input)[1]))))

\* C7: clean applied to the result of a successful clean succeeds and leaves
\* the path as it is.
C7_CleanIdempotent ==
    [][(CleanedOk /\ op' = "clean" /\ calls' = calls + 1)
          => (result' = "Ok" /\ path' = path)]_vars

\* C8: unique returns a path that does not exist unchanged.
C8_UniqueKeepsMissingPath ==
    (UniqueDone /\ components(input) \notin fs) => (path = input /\ probed = 0)

C8_Witness ==
    /\ UniqueDone
    /\ components(input) \notin fs
    /\ FinalSegment(input) # None
    /\ Candidate(input, 1) \in fs

\* C9: unique returns a path without final segment unchanged, whether or not
\* it exists.
C9_UniqueKeepsPathWithoutFinalSegment ==
    (UniqueDone /\ FinalSegment(input) = None) => path = input

\* C10: a call of unique never probes more numbered candidates than there
\* are existing entries, and once started it returns.
C10_UniqueTerminates ==
    /\ [](probed <= Cardinality(fs))
    /\ [](op = "unique" => result \in {"Running", "Ok"})
    /\ (pc = "loop") ~> (pc = "idle" /\ result = "Ok")

C10_Witness == UniqueDone /\ probed = Cardinality(fs) /\ probed = 3

====
